---- MODULE Spec2Model ----
(***************************************************************************)
(* The cloudability-api extraction pipeline.                               *)
(*                                                                         *)
(* Three scripts hold variants of one generator, get_data:                 *)
(*   "daily" : get-daily-spend.py (database sink, optional scheduler) and  *)
(*             write-data-to-csv.py (CSV sink), whose get_url, submit_job, *)
(*             wait_for_job, parse_result_row and get_data are line for    *)
(*             line those of get-daily-spend.py                            *)
(*   "etl"   : cloudability-etl.py (CSV sink, older inline protocol)       *)
(*                                                                         *)
(* Dates are day numbers (day 0 = 1 January of a non-leap year).  The      *)
(* remote service is the environment: every GET draws its status code and  *)
(* its body from small sets.  None of Python is the empty tuple <<>> and   *)
(* a present value x is <<x>> wherever a value may be absent.              *)
(***************************************************************************)
EXTENDS Integers, Sequences, FiniteSets, TLC

VARIABLES
    variant,            \* which script runs
    env_start_date,     \* os.getenv('START_DATE'): <<>> unset, <<d>> set
    report_length_days, \* int(os.getenv('REPORT_LENGTH_DAYS', '7'))
    today,              \* datetime.date.today(), advanced by Tick
    today0,             \* the date when the run started (history)
    pc,                 \* position of the run inside get_data
    i,                  \* index of the vendor in settings.vendor_accounts
    start_date,         \* get_data local
    end_date,           \* get_data local
    query,              \* get_data's shared query dict (filters, start_date, end_date)
    url,                \* the URL of the request being made
    job_id,             \* <<>> is None
    job_status,         \* wait_for_job local
    results,            \* rows of results_response.json()['results'] not yet yielded
    delivered,          \* rows handed to the sink so far, in order
    error,              \* exception that ended the run, "none" if none
    call,               \* the current (or last) GET call: url set, attempts, 502s, last status
    polled,             \* statuses polled in the current iteration (history)
    results_calls,      \* results calls made in the current iteration (history)
    windows,            \* windows requested so far (history)
    ticks,              \* days the clock advanced during the run
    sched,              \* the scheduler of get-daily-spend.py main()
    db,                 \* the table of get-daily-spend.py's Database, and its runs
    file                \* what a killed process left of its output file, <<>> if none

vars == <<variant, env_start_date, report_length_days, today, today0, pc, i,
          start_date, end_date, query, url, job_id, job_status, results,
          delivered, error, call, polled, results_calls, windows, ticks, sched, db, file>>

runVars == <<variant, env_start_date, report_length_days, today, today0, pc, i,
             start_date, end_date, query, url, job_id, job_status, results,
             delivered, error, call, polled, results_calls, windows, ticks,
             db, file>>

----------------------------------------------------------------------------
(* Bounds of the model *)

\* the run starts on this day (10 February)
Today0 == 40
\* START_DATE, when set, is at most this many days before the start of the run
StartSpan == 2
\* days the clock may advance while a run is in progress
MaxTicks == 1
\* 502 responses the service gives to one request before another status
Max502 == 2
\* status polls of one job: the last one allowed reports a terminal status
MaxPolls == 3
\* windows requested in one run (a loop that never ends is cut here)
MaxWindows == 3

None == <<>>
Some(x) == <<x>>

Max(S) == CHOOSE x \in S : \A y \in S : y <= x

----------------------------------------------------------------------------
(* Configuration: Settings *)

\* VENDOR_ACCOUNTS = "V1:Acme V2:Beta"
vendor_accounts ==
    << [vendor_id |-> "V1", vendor_name |-> "Acme"],
       [vendor_id |-> "V2", vendor_name |-> "Beta"] >>

\* Settings.start_date with a default of two weeks
Settings_start_date_two_weeks ==
    IF env_start_date = None THEN today - 14 ELSE env_start_date[1]

\* Settings.start_date: evaluated at every access
Settings_start_date ==
    IF env_start_date = None THEN today - 7 ELSE env_start_date[1]

\* first days of the months of a non-leap year
MonthStarts == {0, 31, 59, 90, 120, 151, 181, 212, 243, 273, 304, 334}

\* a date left as it is
replace_day_1_same_day(d) == d

\* date.replace(day=1)
replace_day_1(d) == Max({m \in MonthStarts : m <= d})


----------------------------------------------------------------------------
(* The remote service *)

\* status codes a GET may receive
Statuses == {200, 304, 404, 500, 502}

\* job identifiers of an enqueue response; None when the body carries no 'id'
JobIds == {None, Some(1)}

\* values of the 'status' field of a state response
JobStatuses == {"running", "finished", "errored"}

\* rows of a result list (RawResultRow)
Row1 ==
    [resource_identifier |-> "i-1", enhanced_service_name |-> "EC2", tag1 |-> "web",
     tag8 |-> Some("prod"), tag13 |-> Some("a@x.com"), date |-> Today0 - 1,
     unblended_cost |-> <<"$", "1", ",", "0">>, adjusted_cost |-> <<"$", "9">>,
     usage_hours |-> <<"2">>, usage_quantity |-> <<"3">>]

Row2 ==
    [resource_identifier |-> "i-1", enhanced_service_name |-> "EC2", tag1 |-> "web",
     tag8 |-> None, tag13 |-> Some("(not set)"), date |-> Today0 - 1,
     unblended_cost |-> <<"5">>, adjusted_cost |-> <<"$", "4">>,
     usage_hours |-> <<"1">>, usage_quantity |-> <<"1">>]

Row3 ==
    [resource_identifier |-> "i-1", enhanced_service_name |-> "EC2", tag1 |-> "web",
     tag8 |-> Some("(not set)"), tag13 |-> Some(""), date |-> Today0 - 1,
     unblended_cost |-> <<"7">>, adjusted_cost |-> <<"6">>,
     usage_hours |-> <<"1">>, usage_quantity |-> <<"1">>]

Row4 ==
    [resource_identifier |-> "i-1", enhanced_service_name |-> "EC2", tag1 |-> "web",
     tag8 |-> Some(""), tag13 |-> None, date |-> Today0 - 1,
     unblended_cost |-> <<"8">>, adjusted_cost |-> <<"$", "8">>,
     usage_hours |-> <<"2">>, usage_quantity |-> <<"2">>]

RawRows == {Row1, Row2, Row3, Row4}

\* result lists of a results response
ResultLists == {<<>>, <<Row1, Row2>>, <<Row3, Row4>>}

\* the result lists the service returns under a filter: with 'tag13!=(not set)'
\* no row of the list has the tag13 '(not set)'
Filtered(f) ==
    IF f.tag13_set
    THEN {l \in ResultLists : \A k \in 1 .. Len(l) : l[k].tag13 # Some("(not set)")}
    ELSE ResultLists

----------------------------------------------------------------------------
(* clean_currency and parse_result_row *)

Digit == [c \in {"0", "1", "2", "3", "4", "5", "6", "7", "8", "9"} |->
            CASE c = "0" -> 0 [] c = "1" -> 1 [] c = "2" -> 2 [] c = "3" -> 3
              [] c = "4" -> 4 [] c = "5" -> 5 [] c = "6" -> 6 [] c = "7" -> 7
              [] c = "8" -> 8 [] c = "9" -> 9]

\* str.lstrip('$'): every leading '$' is removed
RECURSIVE lstrip_dollar(_)
lstrip_dollar(value) ==
    IF value # <<>> /\ Head(value) = "$" THEN lstrip_dollar(Tail(value)) ELSE value

\* str.replace(',', '')
remove_commas(value) == SelectSeq(value, LAMBDA c : c # ",")

\* decimal.Decimal of a string of digits
RECURSIVE Decimal(_)
Decimal(value) ==
    IF value = <<>> THEN 0
    ELSE 10 * Decimal(SubSeq(value, 1, Len(value) - 1)) + Digit[value[Len(value)]]

clean_currency(value) == Decimal(remove_commas(lstrip_dollar(value)))

\* the tags that stand for "no value"
NotSet == {Some("(not set)"), Some(""), None}

parse_result_row(vendor, row) ==
    LET owner_email == IF row.tag13 \in NotSet THEN "(unknown)" ELSE row.tag13[1]
        application_env == IF row.tag8 \in NotSet THEN "(unknown)" ELSE row.tag8[1]
    IN  [vendor_id |-> vendor.vendor_id,
         vendor_name |-> vendor.vendor_name,
         resource_id |-> row.resource_identifier,
         service_name |-> row.enhanced_service_name,
         name |-> row.tag1,
         owner_email |-> Some(owner_email),
         date |-> row.date,
         unblended_cost |-> clean_currency(row.unblended_cost),
         adjusted_cost |-> clean_currency(row.adjusted_cost),
         usage_hours |-> Decimal(row.usage_hours),
         usage_quantity |-> Decimal(row.usage_quantity),
         application_env |-> Some(application_env)]

----------------------------------------------------------------------------
(* Database.add_record of get-daily-spend.py *)

\* the columns of 'on conflict (owner_email, date, resource_id, name)'
conflict_key(r) == <<r.owner_email, r.date, r.resource_id, r.name>>

\* insert ... on conflict (...) do nothing
add_record_do_nothing(table, params) ==
    IF \E k \in 1 .. Len(table) : conflict_key(table[k]) = conflict_key(params)
    THEN table
    ELSE Append(table, params)

\* insert ... on conflict (...) do update set <every other column> = excluded.<column>
\* The table is the sequence of its records, in the order of their insertion.
add_record(table, params) ==
    IF \E k \in 1 .. Len(table) : conflict_key(table[k]) = conflict_key(params)
    THEN [k \in 1 .. Len(table) |->
            IF conflict_key(table[k]) = conflict_key(params) THEN params ELSE table[k]]
    ELSE Append(table, params)

\* the database before the first run
NoDb == [table |-> <<>>, run |-> 1, before |-> <<>>]


----------------------------------------------------------------------------
(* URLs: urllib.parse.urlencode of the parameters, kept as the parameters *)

enqueue_url(q) ==
    [endpoint |-> "enqueue", job_id |-> None,
     filters |-> q.filters, start_date |-> q.start_date, end_date |-> q.end_date]

state_url(id) ==
    [endpoint |-> "state", job_id |-> id,
     filters |-> None, start_date |-> None, end_date |-> None]

results_url(id) ==
    [endpoint |-> "results", job_id |-> id,
     filters |-> None, start_date |-> None, end_date |-> None]

NoUrl ==
    [endpoint |-> "none", job_id |-> None,
     filters |-> None, start_date |-> None, end_date |-> None]

----------------------------------------------------------------------------
(* get_url: GET with retry on 502 *)

\* requests.Response.raise_for_status raises HTTPError for 4xx and 5xx
raise_for_status(s) == s >= 400 /\ s < 600

NewCall == [urls |-> {}, attempts |-> 0, n502 |-> 0, last |-> 0, outcome |-> "waiting"]

\* no call in progress: the response of the last call has been consumed
NoCall == [NewCall EXCEPT !.outcome = "idle"]

\* no call in progress: time.sleep() has just returned
Slept == [NewCall EXCEPT !.outcome = "slept"]

\* the call in progress, or a new one when the last call is over
CurCall == IF call.outcome = "waiting" THEN call ELSE NewCall

\* statuses the service may answer now (502 at most Max502 times per request)
Answers == IF CurCall.n502 < Max502 THEN Statuses ELSE Statuses \ {502}

\* session.get(u): one request is issued and answered with status s
Get(u, s) ==
    [CurCall EXCEPT !.urls = @ \cup {u},
                    !.attempts = @ + 1,
                    !.n502 = IF s = 502 THEN @ + 1 ELSE @,
                    !.last = s]

\* get_url retrying on every 5xx status
get_url_retry_5xx(s, cont) ==
    IF raise_for_status(s)
    THEN IF s >= 500
         THEN /\ call' = Get(url, s)
              /\ pc' = pc
              /\ error' = error
         ELSE /\ call' = [Get(url, s) EXCEPT !.outcome = "raised"]
              /\ pc' = "failed"
              /\ error' = "HTTPError"
    ELSE /\ call' = [Get(url, s) EXCEPT !.outcome = "returned"]
         /\ pc' = cont
         /\ error' = error

\* get_url without the 'raise' of its else branch: the response is returned
get_url_no_raise(s, cont) ==
    IF raise_for_status(s) /\ s = 502
    THEN /\ call' = Get(url, s)
         /\ pc' = pc
         /\ error' = error
    ELSE /\ call' = [Get(url, s) EXCEPT !.outcome = "returned"]
         /\ pc' = cont
         /\ error' = error

\* one iteration of get_url's loop; cont is where the caller goes on return
get_url(s, cont) ==
    IF raise_for_status(s)
    THEN IF s = 502
         THEN /\ call' = Get(url, s)
              /\ pc' = pc
              /\ error' = error
         ELSE /\ call' = [Get(url, s) EXCEPT !.outcome = "raised"]
              /\ pc' = "failed"
              /\ error' = "HTTPError"
    ELSE /\ call' = [Get(url, s) EXCEPT !.outcome = "returned"]
         /\ pc' = cont
         /\ error' = error

\* get_url returns the response of status s to its caller
Returns(s) == ~raise_for_status(s)


----------------------------------------------------------------------------
(* History of the windows requested *)

\* the window being requested, as logged at 'Requesting data from ... to ...'
Window == [vendor |-> i, start_date |-> start_date, end_date |-> end_date,
           jobs |-> 0, closed |-> FALSE, rows |-> <<>>]

\* the log after the n-th field change of its last entry
JobSubmitted(w) == [w EXCEPT ![Len(w)].jobs = @ + 1]
WindowClosed(w) == [w EXCEPT ![Len(w)].closed = TRUE]
\* the result list of the window's finished job
WindowResults(w, rows) == [w EXCEPT ![Len(w)].rows = rows]

\* a window is requested when the first GET of its enqueue call is issued
Requested == IF call.outcome # "waiting" THEN Append(windows, Window) ELSE windows

----------------------------------------------------------------------------
(* get_data of get-daily-spend.py (and of write-data-to-csv.py) *)

Terminal == {"errored", "finished"}

\* a loop that ends on 'finished' only
job_pending_until_finished(status) == status # "finished"

\* wait_for_job's loop test: job_status not in ('errored', 'finished')
job_pending(status) == status \notin Terminal

\* the loop bound read once, when the run starts
loop_bound_at_start == today0

\* the bound of the window loop: datetime.date.today(), read at every test
loop_bound == today

\* the next window starting on the end date of this one
next_start_overlap(end) == end

\* end_date + datetime.timedelta(days=1)
next_start(end) == end + 1

\* statuses the service may report at this poll: a job that errored stays errored
PollAnswers ==
    IF job_status = "errored" THEN {"errored"}
    ELSE IF Len(polled) + 1 >= MaxPolls THEN Terminal ELSE JobStatuses

vendor_filter(vendor_id) == [vendor_account_identifier |-> vendor_id, tag13_set |-> FALSE]

\* query['start_date'] and query['end_date'] written without the end date
window_query_start_only(q, s, e) == [q EXCEPT !.start_date = Some(s)]

\* query['start_date'] = ...; query['end_date'] = ...: the shared dict is updated
window_query(q, s, e) == [q EXCEPT !.start_date = Some(s), !.end_date = Some(e)]

\* for i, vendor in enumerate(settings.vendor_accounts, start=1): ...
for_vendor ==
    /\ variant = "daily"
    /\ pc = "for"
    /\ IF i < Len(vendor_accounts)
       THEN /\ i' = i + 1
            /\ start_date' = Settings_start_date
            /\ query' = [query EXCEPT
                           !.filters = Some(vendor_filter(vendor_accounts[i + 1].vendor_id))]
            /\ pc' = "while"
       ELSE /\ pc' = "done"
            /\ UNCHANGED <<i, start_date, query>>
    /\ call' = NoCall
    /\ UNCHANGED <<variant, env_start_date, report_length_days, today, today0,
                   end_date, url, job_id, job_status, results, delivered, error,
                   polled, results_calls, windows, ticks, sched, db, file>>

\* while start_date < datetime.date.today(): build the window's enqueue URL
while_test ==
    /\ variant = "daily"
    /\ pc = "while"
    /\ IF start_date < loop_bound
       THEN /\ Len(windows) < MaxWindows
            /\ end_date' = start_date + report_length_days
            /\ query' = window_query(query, start_date, end_date')
            /\ url' = enqueue_url(query')
            /\ pc' = "submit_job"
       ELSE /\ pc' = "for"
            /\ UNCHANGED <<end_date, query, url>>
    /\ call' = NoCall
    /\ UNCHANGED <<variant, env_start_date, report_length_days, today, today0, i,
                   start_date, job_id, job_status, results, delivered, error,
                   polled, results_calls, windows, ticks, sched, db, file>>

\* submit_job: one GET of the enqueue URL; on return the job id is read and
\* the state URL is built, and wait_for_job starts with status 'requested'
submit_job ==
    /\ variant = "daily"
    /\ pc = "submit_job"
    /\ \E s \in Answers, id \in JobIds :
         /\ get_url(s, "wait_for_job")
         /\ IF Returns(s)
            THEN /\ job_id' = id
                 /\ url' = state_url(id)
                 /\ job_status' = "requested"
                 /\ polled' = <<>>
                 /\ results_calls' = 0
                 /\ windows' = JobSubmitted(Requested)
            ELSE /\ windows' = Requested
                 /\ UNCHANGED <<job_id, url, job_status, polled, results_calls>>
    /\ UNCHANGED <<variant, env_start_date, report_length_days, today, today0, i,
                   start_date, end_date, query, results, delivered, ticks, sched, db, file>>

\* wait_for_job: the loop test fails to end the loop, time.sleep(5)
wait_for_job_sleep ==
    /\ variant = "daily"
    /\ pc = "wait_for_job"
    /\ job_pending(job_status)
    /\ pc' = "poll"
    /\ call' = Slept
    /\ UNCHANGED <<variant, env_start_date, report_length_days, today, today0, i,
                   start_date, end_date, query, url, job_id, job_status, results,
                   delivered, error, polled, results_calls, windows, ticks,
                   sched, db, file>>

\* wait_for_job polling again at once while the job is pending
wait_for_job_poll_busy ==
    /\ variant = "daily"
    /\ pc = "poll"
    /\ \E s \in Answers, status \in PollAnswers :
         /\ get_url(s, IF job_pending(status) THEN "poll" ELSE "wait_for_job")
         /\ IF Returns(s)
            THEN /\ job_status' = status
                 /\ polled' = Append(polled, status)
            ELSE UNCHANGED <<job_status, polled>>
    /\ UNCHANGED <<variant, env_start_date, report_length_days, today, today0, i,
                   start_date, end_date, query, url, job_id, results, delivered,
                   results_calls, windows, ticks, sched, db, file>>

\* wait_for_job: one GET of the state URL; on return the status is read
wait_for_job_poll ==
    /\ variant = "daily"
    /\ pc = "poll"
    /\ \E s \in Answers, status \in PollAnswers :
         /\ get_url(s, "wait_for_job")
         /\ IF Returns(s)
            THEN /\ job_status' = status
                 /\ polled' = Append(polled, status)
            ELSE UNCHANGED <<job_status, polled>>
    /\ UNCHANGED <<variant, env_start_date, report_length_days, today, today0, i,
                   start_date, end_date, query, url, job_id, results, delivered,
                   results_calls, windows, ticks, sched, db, file>>

\* get_data submitting the window again when its job errored
wait_for_job_return_resubmit ==
    /\ variant = "daily"
    /\ pc = "wait_for_job"
    /\ ~job_pending(job_status)
    /\ IF job_status = "finished"
       THEN /\ url' = results_url(job_id)
            /\ pc' = "fetch"
       ELSE /\ url' = enqueue_url(query)
            /\ pc' = "submit_job"
    /\ call' = NoCall
    /\ UNCHANGED <<variant, env_start_date, report_length_days, today, today0, i,
                   start_date, end_date, query, job_id, job_status, results,
                   delivered, error, polled, results_calls, windows, ticks, sched, db, file>>

\* wait_for_job returns a terminal status; get_data branches on it
wait_for_job_return ==
    /\ variant = "daily"
    /\ pc = "wait_for_job"
    /\ ~job_pending(job_status)
    /\ IF job_status = "finished"
       THEN /\ url' = results_url(job_id)
            /\ pc' = "fetch"
            /\ UNCHANGED windows
       ELSE /\ pc' = "advance"
            /\ windows' = WindowClosed(windows)
            /\ UNCHANGED url
    /\ call' = NoCall
    /\ UNCHANGED <<variant, env_start_date, report_length_days, today, today0, i,
                   start_date, end_date, query, job_id, job_status, results,
                   delivered, error, polled, results_calls, ticks, sched, db, file>>

\* results_response = get_url(settings, url): one GET of the results URL
fetch_results ==
    /\ variant = "daily"
    /\ pc = "fetch"
    /\ \E s \in Answers, rows \in Filtered(query.filters[1]) :
         /\ get_url(s, IF rows = <<>> THEN "advance" ELSE "yield")
         /\ results_calls' = IF call.outcome # "waiting" THEN results_calls + 1
                             ELSE results_calls
         /\ IF Returns(s)
            THEN /\ results' = rows
                 /\ windows' = WindowResults(WindowClosed(windows), rows)
            ELSE UNCHANGED <<results, windows>>
    /\ UNCHANGED <<variant, env_start_date, report_length_days, today, today0, i,
                   start_date, end_date, query, url, job_id, job_status, delivered,
                   polled, ticks, sched, db, file>>

\* the generator ending the result list after its first row
yield_row_first_only ==
    /\ variant = "daily"
    /\ pc = "yield"
    /\ delivered' = Append(delivered, parse_result_row(vendor_accounts[i], Head(results)))
    /\ db' = [db EXCEPT !.table = add_record(@, delivered'[Len(delivered')])]
    /\ results' = <<>>
    /\ pc' = "advance"
    /\ call' = NoCall
    /\ UNCHANGED <<variant, env_start_date, report_length_days, today, today0, i,
                   start_date, end_date, query, url, job_id, job_status, error,
                   polled, results_calls, windows, ticks, sched, file>>

\* yield parse_result_row(vendor, result), consumed by the sink's loop:
\* db.add_record(row) in main_job, writer.writerow(row) in write-data-to-csv.py
yield_row ==
    /\ variant = "daily"
    /\ pc = "yield"
    /\ delivered' = Append(delivered, parse_result_row(vendor_accounts[i], Head(results)))
    /\ db' = [db EXCEPT !.table = add_record(@, delivered'[Len(delivered')])]
    /\ results' = Tail(results)
    /\ pc' = IF Tail(results) = <<>> THEN "advance" ELSE "yield"
    /\ call' = NoCall
    /\ UNCHANGED <<variant, env_start_date, report_length_days, today, today0, i,
                   start_date, end_date, query, url, job_id, job_status, error,
                   polled, results_calls, windows, ticks, sched, file>>

\* start_date = end_date + datetime.timedelta(days=1)
advance ==
    /\ variant = "daily"
    /\ pc = "advance"
    /\ start_date' = next_start(end_date)
    /\ pc' = "while"
    /\ call' = NoCall
    /\ polled' = <<>>
    /\ results_calls' = 0
    /\ UNCHANGED <<variant, env_start_date, report_length_days, today, today0, i,
                   end_date, query, url, job_id, job_status, results, delivered,
                   error, windows, ticks, sched, db, file>>

----------------------------------------------------------------------------
(* get_data of cloudability-etl.py *)

etl_filter(vendor_id) == [vendor_account_identifier |-> vendor_id, tag13_set |-> TRUE]

\* s.get(u); response.raise_for_status(): no retry
etl_get(u, s, cont) ==
    IF raise_for_status(s)
    THEN /\ call' = [Get(u, s) EXCEPT !.outcome = "raised"]
         /\ pc' = "failed"
         /\ error' = "HTTPError"
    ELSE /\ call' = [Get(u, s) EXCEPT !.outcome = "returned"]
         /\ pc' = cont
         /\ error' = error

\* the dict yielded for one result
etl_row(vendor, result) ==
    [vendor_id |-> vendor.vendor_id,
     vendor_name |-> vendor.vendor_name,
     resource_id |-> result.resource_identifier,
     service_name |-> result.enhanced_service_name,
     name |-> result.tag1,
     owner_email |-> result.tag13,
     date |-> result.date,
     unblended_cost |-> clean_currency(result.unblended_cost),
     adjusted_cost |-> clean_currency(result.adjusted_cost),
     usage_hours |-> Decimal(result.usage_hours),
     usage_quantity |-> Decimal(result.usage_quantity)]

\* for vendor in settings.vendor_accounts: ...
etl_for_vendor ==
    /\ variant = "etl"
    /\ pc = "for"
    /\ IF i < Len(vendor_accounts)
       THEN /\ i' = i + 1
            /\ start_date' = replace_day_1(Settings_start_date)
            /\ query' = [query EXCEPT
                           !.filters = Some(etl_filter(vendor_accounts[i + 1].vendor_id))]
            /\ pc' = "while"
       ELSE /\ pc' = "done"
            /\ UNCHANGED <<i, start_date, query>>
    /\ call' = NoCall
    /\ UNCHANGED <<variant, env_start_date, report_length_days, today, today0,
                   end_date, url, job_id, job_status, results, delivered, error,
                   polled, results_calls, windows, ticks, sched, db, file>>

\* while start_date < datetime.date.today(): build the window's enqueue URL
etl_while_test ==
    /\ variant = "etl"
    /\ pc = "while"
    /\ IF start_date < today
       THEN /\ Len(windows) < MaxWindows
            /\ end_date' = start_date + 7
            /\ query' = window_query(query, start_date, end_date')
            /\ url' = enqueue_url(query')
            /\ pc' = "submit_job"
       ELSE /\ pc' = "for"
            /\ UNCHANGED <<end_date, query, url>>
    /\ call' = NoCall
    /\ UNCHANGED <<variant, env_start_date, report_length_days, today, today0, i,
                   start_date, job_id, job_status, results, delivered, error,
                   polled, results_calls, windows, ticks, sched, db, file>>

\* the enqueue GET; on success the job id is read and job_status = 'requested'
etl_enqueue ==
    /\ variant = "etl"
    /\ pc = "submit_job"
    /\ \E s \in Answers, id \in JobIds :
         /\ etl_get(url, s, "wait_for_job")
         /\ IF Returns(s)
            THEN /\ job_id' = id
                 /\ job_status' = "requested"
                 /\ polled' = <<>>
                 /\ results_calls' = 0
                 /\ windows' = JobSubmitted(Requested)
            ELSE /\ windows' = Requested
                 /\ UNCHANGED <<job_id, job_status, polled, results_calls>>
    /\ UNCHANGED <<variant, env_start_date, report_length_days, today, today0, i,
                   start_date, end_date, query, url, results, delivered, ticks,
                   sched, db, file>>

\* while not job_status == 'finished': time.sleep(10), build the state URL
etl_sleep ==
    /\ variant = "etl"
    /\ pc = "wait_for_job"
    /\ job_status # "finished"
    /\ url' = state_url(job_id)
    /\ pc' = "poll"
    /\ call' = Slept
    /\ UNCHANGED <<variant, env_start_date, report_length_days, today, today0, i,
                   start_date, end_date, query, job_id, job_status, results,
                   delivered, error, polled, results_calls, windows, ticks, sched, db, file>>

\* the state GET; on success the status is read
etl_poll ==
    /\ variant = "etl"
    /\ pc = "poll"
    /\ \E s \in Answers, status \in PollAnswers :
         /\ etl_get(url, s, "wait_for_job")
         /\ IF Returns(s)
            THEN /\ job_status' = status
                 /\ polled' = IF Len(polled) < MaxPolls THEN Append(polled, status)
                              ELSE polled
            ELSE UNCHANGED <<job_status, polled>>
    /\ UNCHANGED <<variant, env_start_date, report_length_days, today, today0, i,
                   start_date, end_date, query, url, job_id, results, delivered,
                   results_calls, windows, ticks, sched, db, file>>

\* the poll loop ends on 'finished'; the results GET
etl_fetch ==
    /\ variant = "etl"
    /\ pc = "wait_for_job"
    /\ job_status = "finished"
    /\ url' = results_url(job_id)
    /\ \E s \in Answers, rows \in Filtered(query.filters[1]) :
         /\ etl_get(url', s, IF rows = <<>> THEN "advance" ELSE "yield")
         /\ results_calls' = results_calls + 1
         /\ IF Returns(s)
            THEN /\ results' = rows
                 /\ windows' = WindowResults(WindowClosed(windows), rows)
            ELSE UNCHANGED <<results, windows>>
    /\ UNCHANGED <<variant, env_start_date, report_length_days, today, today0, i,
                   start_date, end_date, query, job_id, job_status, delivered,
                   polled, ticks, sched, db, file>>

\* yield {...}, consumed by writer.writerow(row)
etl_yield ==
    /\ variant = "etl"
    /\ pc = "yield"
    /\ delivered' = Append(delivered, etl_row(vendor_accounts[i], Head(results)))
    /\ results' = Tail(results)
    /\ pc' = IF Tail(results) = <<>> THEN "advance" ELSE "yield"
    /\ call' = NoCall
    /\ UNCHANGED <<variant, env_start_date, report_length_days, today, today0, i,
                   start_date, end_date, query, url, job_id, job_status, error,
                   polled, results_calls, windows, ticks, sched, db, file>>

\* start_date = end_date + datetime.timedelta(days=1)
etl_advance ==
    /\ variant = "etl"
    /\ pc = "advance"
    /\ start_date' = end_date + 1
    /\ pc' = "while"
    /\ call' = NoCall
    /\ polled' = <<>>
    /\ results_calls' = 0
    /\ UNCHANGED <<variant, env_start_date, report_length_days, today, today0, i,
                   end_date, query, url, job_id, job_status, results, delivered,
                   error, windows, ticks, sched, db, file>>

\* the calendar date advances while the run is in progress
Tick ==
    /\ pc \notin {"done", "failed", "exited", "killed"}
    /\ ticks < MaxTicks
    /\ today' = today + 1
    /\ ticks' = ticks + 1
    /\ UNCHANGED <<variant, env_start_date, report_length_days, today0, pc, i,
                   start_date, end_date, query, url, job_id, job_status, results,
                   delivered, error, call, polled, results_calls, windows, sched, db, file>>

\* SIGTERM in get-daily-spend.py and write-data-to-csv.py: handle_sigterm calls
\* sys.exit(), SystemExit unwinds the run where it is (closing the CSV file
\* of write-data-to-csv.py, which writes out what was handed to the writer)
handle_sigterm ==
    /\ variant = "daily"
    /\ pc \notin {"done", "failed", "exited"}
    /\ pc' = "exited"
    /\ error' = "SystemExit"
    /\ UNCHANGED <<variant, env_start_date, report_length_days, today, today0, i,
                   start_date, end_date, query, url, job_id, job_status, results,
                   delivered, call, polled, results_calls, windows, ticks, sched,
                   db, file>>

\* what may be found of the rows handed to a buffered file when its process
\* is ended without closing it: the first n rows, and with torn the first
\* bytes of the row after them (the buffer is written out in blocks that
\* end anywhere)
Leftovers(rows) ==
    {[rows |-> SubSeq(rows, 1, n), torn |-> t] :
        n \in 0 .. Len(rows), t \in BOOLEAN} \ {[rows |-> rows, torn |-> TRUE]}

\* SIGTERM in cloudability-etl.py: no handler is installed, the process is
\* ended by the signal's default action, the output file is not closed
etl_sigterm ==
    /\ variant = "etl"
    /\ pc \notin {"done", "failed", "killed"}
    /\ pc' = "killed"
    /\ error' = "SIGTERM"
    /\ \E left \in Leftovers(delivered) : file' = Some(left)
    /\ UNCHANGED <<variant, env_start_date, report_length_days, today, today0, i,
                   start_date, end_date, query, url, job_id, job_status, results,
                   delivered, call, polled, results_calls, windows, ticks, sched,
                   db>>

\* main_job is called a second time (by the interval job, or because the script
\* is started again): get_data starts afresh on the table the first run left
main_job_again ==
    /\ variant = "daily"
    /\ pc \in {"done", "failed"}
    /\ db.run = 1
    /\ db' = [table |-> db.table, run |-> 2, before |-> db.table]
    /\ pc' = "for"
    /\ i' = 0
    /\ start_date' = today0
    /\ end_date' = today0
    /\ query' = [filters |-> None, start_date |-> None, end_date |-> None]
    /\ url' = NoUrl
    /\ job_id' = None
    /\ job_status' = "requested"
    /\ results' = <<>>
    /\ delivered' = <<>>
    /\ error' = "none"
    /\ call' = NoCall
    /\ polled' = <<>>
    /\ results_calls' = 0
    /\ windows' = <<>>
    /\ UNCHANGED <<variant, env_start_date, report_length_days, today, today0,
                   ticks, sched, file>>

----------------------------------------------------------------------------
(* main() of get-daily-spend.py under the scheduler (RUN_AND_EXIT false)    *)
(*                                                                          *)
(* BlockingScheduler runs jobs in a pool of threads.  Each job added has    *)
(* its own count of running instances, limited to 1 per job (the default    *)
(* max_instances): a job that is due while one of ITS instances runs is     *)
(* skipped.  main() adds two jobs that both call main_job: an interval job, *)
(* first due one interval after it was added, and a job without trigger,    *)
(* due once, at once.                                                       *)

\* time units (run intervals are counted in them) the scheduler is followed
MaxTime == 6

\* values of RUN_INTERVAL
RunIntervals == {1, 2}

NoSched ==
    [started |-> FALSE, now |-> 0, run_interval |-> 0, next_run_time |-> 0,
     date_job |-> "none",
     instances |-> [interval_job |-> 0, date_job |-> 0],
     completed |-> 0, skipped |-> 0]

\* scheduler.add_job(main_job, 'interval', minutes=...); scheduler.add_job(main_job);
\* scheduler.start()
main ==
    /\ ~sched.started
    /\ \E run_interval \in RunIntervals :
         sched' = [sched EXCEPT !.started = TRUE,
                                !.run_interval = run_interval,
                                !.next_run_time = sched.now + run_interval,
                                !.date_job = "pending"]
    /\ UNCHANGED runVars

\* the job without trigger is due: main_job starts in a thread, the job is removed
run_date_job ==
    /\ sched.started
    /\ sched.date_job = "pending"
    /\ sched' = [sched EXCEPT !.date_job = "removed",
                              !.instances.date_job = @ + 1]
    /\ UNCHANGED runVars

\* the interval job is due: main_job starts in a thread unless an instance of
\* the interval job is still running, and the next run time is set
run_interval_job ==
    /\ sched.started
    /\ sched.now >= sched.next_run_time
    /\ IF sched.instances.interval_job < 1
       THEN sched' = [sched EXCEPT !.instances.interval_job = @ + 1,
                                   !.next_run_time = @ + sched.run_interval]
       ELSE sched' = [sched EXCEPT !.skipped = @ + 1,
                                   !.next_run_time = @ + sched.run_interval]
    /\ UNCHANGED runVars

\* main_job returns (or raises) in its thread
main_job_ends ==
    /\ \E job \in {"interval_job", "date_job"} :
         /\ sched.instances[job] > 0
         /\ sched' = [sched EXCEPT !.instances[job] = @ - 1,
                                   !.completed = @ + 1]
    /\ UNCHANGED runVars

\* time passes; the scheduler wakes up for every job that is due
time_passes ==
    /\ sched.started
    /\ sched.date_job # "pending"
    /\ sched.now < sched.next_run_time
    /\ sched.now < MaxTime
    /\ sched' = [sched EXCEPT !.now = @ + 1]
    /\ UNCHANGED runVars

----------------------------------------------------------------------------
(* Initial states *)

Variants == {"daily", "etl"}

\* values of REPORT_LENGTH_DAYS; int() accepts negative numbers
WindowLengths == {-1, 1, 7}

StartDates == {None} \cup {Some(d) : d \in (Today0 - StartSpan) .. Today0}

Init ==
    /\ variant \in Variants
    /\ env_start_date \in StartDates
    /\ report_length_days \in (IF variant = "etl" THEN {7} ELSE WindowLengths)
    /\ today = Today0
    /\ today0 = Today0
    /\ pc = "for"
    /\ i = 0
    /\ start_date = Today0
    /\ end_date = Today0
    /\ query = [filters |-> None, start_date |-> None, end_date |-> None]
    /\ url = NoUrl
    /\ job_id = None
    /\ job_status = "requested"
    /\ results = <<>>
    /\ delivered = <<>>
    /\ error = "none"
    /\ call = NoCall
    /\ polled = <<>>
    /\ results_calls = 0
    /\ windows = <<>>
    /\ ticks = 0
    /\ sched = NoSched
    /\ db = NoDb
    /\ file = None

Next ==
    \/ for_vendor
    \/ while_test
    \/ submit_job
    \/ wait_for_job_sleep
    \/ wait_for_job_poll
    \/ wait_for_job_return
    \/ fetch_results
    \/ yield_row
    \/ advance
    \/ etl_for_vendor
    \/ etl_while_test
    \/ etl_enqueue
    \/ etl_sleep
    \/ etl_poll
    \/ etl_fetch
    \/ etl_yield
    \/ etl_advance
    \/ Tick

Spec == Init /\ [][Next]_vars

\* the scheduler, for the default configuration of get-daily-spend.py
SchedInit ==
    /\ Init
    /\ variant = "daily"
    /\ env_start_date = None
    /\ report_length_days = 7

SchedNext ==
    \/ main
    \/ run_date_job
    \/ run_interval_job
    \/ main_job_ends
    \/ time_passes

SchedSpec == SchedInit /\ [][SchedNext]_vars

\* a run with the default window length whose process is never suspended:
\* as long as it has a step to take it takes one
FairInit ==
    /\ Init
    /\ report_length_days = 7

FairSpec == FairInit /\ [][Next]_vars /\ WF_vars(Next)

\* a run that a termination signal may end at any point
SigNext ==
    \/ Next
    \/ handle_sigterm
    \/ etl_sigterm

SigSpec == Init /\ [][SigNext]_vars

\* two runs of main_job into the same table, for the default configuration
UpsertInit ==
    /\ Init
    /\ variant = "daily"
    /\ env_start_date = None
    /\ report_length_days = 7

UpsertNext ==
    \/ for_vendor
    \/ while_test
    \/ submit_job
    \/ wait_for_job_sleep
    \/ wait_for_job_poll
    \/ wait_for_job_return
    \/ fetch_results
    \/ yield_row
    \/ advance
    \/ main_job_again

UpsertSpec == UpsertInit /\ [][UpsertNext]_vars


----------------------------------------------------------------------------
(* Properties *)

Success == 200 .. 299

\* indices of the windows requested for the vendor of index v
WindowsOf(v) == {k \in 1 .. Len(windows) : windows[k].vendor = v}

\* C1: get_url retries only on 502 and returns the first successful
\* response: while every response of a call was a 502 the call goes on, and
\* a 2xx response that follows n responses 502 ends the call as returned
\* after exactly n + 1 requests, all of them to one URL.
C1_RetryOn502 ==
    variant = "daily" =>
        /\ Cardinality(call.urls) <= 1
        /\ call.last = 502 => call.outcome = "waiting" /\ call.attempts = call.n502
        /\ call.last \in Success =>
              call.outcome = "returned" /\ call.attempts = call.n502 + 1

\* C1 witness: responses [502, 502, 200]: three requests, the 200 returned
C1_Witness ==
    /\ variant = "daily"
    /\ call.outcome = "returned"
    /\ call.last = 200
    /\ call.n502 = 2
    /\ call.attempts = 3

\* C2 as stated: every status outside 2xx other than 502 ends the run with
\* an HTTP error.
C2_NonSuccessIsFatal ==
    (call.attempts > 0 /\ call.last \notin Success /\ call.last # 502) =>
        (pc = "failed" /\ error = "HTTPError")

\* C2: a 4xx or 5xx status other than 502 is fatal to the run: the request
\* that received it is not issued again, an HTTP error ends the run, and
\* from then on no request is issued and no row is delivered.
C2_HttpErrorIsFatal ==
    /\ [](  (call.attempts > 0 /\ call.last \in 400 .. 599 /\ call.last # 502) =>
               /\ pc = "failed"
               /\ error = "HTTPError"
               /\ call.outcome = "raised"
               /\ call.attempts = call.n502 + 1  )
    /\ [][ pc = "failed" =>
             (pc' = "failed" /\ call' = call /\ delivered' = delivered /\ windows' = windows)
         ]_vars

\* C2 witness: a 404 ends a run that had delivered a row
C2_Witness ==
    /\ pc = "failed"
    /\ error = "HTTPError"
    /\ call.last = 404
    /\ call.attempts = 1
    /\ Len(delivered) > 0

\* C3 as stated: in every variant a 502 response never ends the run.
C3_502NeverAborts == ~(pc = "failed" /\ call.last = 502)

\* C4: polling stops at the first terminal status and results are fetched
\* only on 'finished': no status is polled after 'finished' or 'errored', at
\* most one results call is made, only after 'finished', and an iteration
\* that is over made one results call if the job finished and none if it
\* errored.
C4_PollUntilTerminal ==
    variant = "daily" =>
        /\ \A k \in 1 .. Len(polled) - 1 : polled[k] \notin Terminal
        /\ results_calls <= 1
        /\ results_calls = 1 => (polled # <<>> /\ polled[Len(polled)] = "finished")
        /\ pc \in {"fetch", "yield", "advance"} =>
              /\ polled # <<>>
              /\ polled[Len(polled)] \in Terminal
        /\ pc \in {"yield", "advance"} =>
              results_calls = (IF polled[Len(polled)] = "finished" THEN 1 ELSE 0)

\* C4 witness: statuses [running, running, finished]: 3 status calls, 1 results call
C4_Witness ==
    /\ variant = "daily"
    /\ pc = "advance"
    /\ polled = <<"running", "running", "finished">>
    /\ results_calls = 1

\* C5 as stated: in every variant a job known to be 'errored' is not polled
\* again.
C5_ErroredLeavesPollLoop ==
    ~(pc = "poll" /\ polled # <<>> /\ polled[Len(polled)] = "errored")

\* C6 as stated: with the windows half open, [start_date, end_date), every
\* day from the first start of a vendor up to its last end lies in exactly
\* one of the vendor's windows.
C6_HalfOpenPartition ==
    \A v \in 1 .. Len(vendor_accounts) :
        WindowsOf(v) # {} =>
            LET first == windows[CHOOSE k \in WindowsOf(v) : \A j \in WindowsOf(v) : k <= j]
                last == windows[CHOOSE k \in WindowsOf(v) : \A j \in WindowsOf(v) : j <= k]
            IN  \A d \in first.start_date .. (last.end_date - 1) :
                    Cardinality({k \in WindowsOf(v) :
                        windows[k].start_date <= d /\ d < windows[k].end_date}) = 1

\* C6: the windows of one vendor are contiguous and do not overlap: window
\* i+1 starts at end_date_i + 1 day, and with the windows closed,
\* [start_date, end_date], every day from the first start up to the last end
\* lies in exactly one of the vendor's windows.
C6_ClosedPartition ==
    \A v \in 1 .. Len(vendor_accounts) :
        /\ \A k, j \in WindowsOf(v) :
              (k < j /\ ~\E m \in WindowsOf(v) : k < m /\ m < j) =>
                  windows[j].start_date = windows[k].end_date + 1
        /\ WindowsOf(v) # {} =>
              LET first == windows[CHOOSE k \in WindowsOf(v) : \A j \in WindowsOf(v) : k <= j]
                  last == windows[CHOOSE k \in WindowsOf(v) : \A j \in WindowsOf(v) : j <= k]
              IN  \A d \in first.start_date .. last.end_date :
                      Cardinality({k \in WindowsOf(v) :
                          windows[k].start_date <= d /\ d <= windows[k].end_date}) = 1

\* C6 witness: two windows of the first vendor, each of two days
C6_Witness ==
    /\ Len(windows) >= 2
    /\ windows[1].vendor = 1
    /\ windows[2].vendor = 1
    /\ windows[1].end_date = windows[1].start_date + 1
    /\ windows[2].end_date = windows[2].start_date + 1

\* C7 as stated: the bound of the window loop is the date on which the run
\* started: no window starting on or after that date is requested.
C7_BoundIsTodayAtStart ==
    \A k \in 1 .. Len(windows) : windows[k].start_date < today0

\* C7: the bound of the window loop is the current date, read again at every
\* test of the loop: a window is requested when its start is before the date
\* of that moment, and a vendor's loop ends when it is not.
C7_BoundIsReadEachTest ==
    [][ /\ (pc = "while" /\ pc' = "submit_job") => start_date < today
        /\ (pc = "while" /\ pc' = "for") => start_date >= today ]_vars

\* C7 witness: the date advanced during the run and a window that starts on
\* the date of the run's start was requested
C7_Witness ==
    /\ today > today0
    /\ \E k \in 1 .. Len(windows) : windows[k].start_date >= today0

\* C8 as stated: for every window length the window start strictly
\* increases on every iteration.
C8_StartIncreases ==
    [][ (pc = "advance" /\ pc' = "while") => start_date' > start_date ]_vars

\* C9: vendors and windows are processed one after the other: the enqueue of
\* a window is issued only after the previous window's job reached a
\* terminal status and, if it finished, its results were fetched; one job is
\* enqueued per window; the windows of a vendor come before those of the
\* next vendor.
C9_Sequential ==
    variant = "daily" =>
        /\ \A k \in 1 .. Len(windows) : windows[k].jobs <= 1
        /\ \A k \in 1 .. Len(windows) - 1 :
              /\ windows[k].jobs = 1
              /\ windows[k].closed
              /\ windows[k].vendor <= windows[k + 1].vendor
        /\ Cardinality({k \in 1 .. Len(windows) :
                           windows[k].jobs > 0 /\ ~windows[k].closed}) <= 1

\* C9 witness: two windows of the first vendor, then one of the second
C9_Witness ==
    /\ variant = "daily"
    /\ Len(windows) = 3
    /\ windows[1].vendor = 1
    /\ windows[2].vendor = 1
    /\ windows[3].vendor = 2
    /\ windows[3].jobs = 1

\* C10 as stated: under the scheduler at most one execution of main_job is
\* in progress.
C10_RunsNeverOverlap ==
    sched.instances.interval_job + sched.instances.date_job <= 1

\* keys of the rows delivered in the current run
DeliveredKeys == {conflict_key(delivered[k]) : k \in 1 .. Len(delivered)}

\* the last row of the current run delivered with the key of its k-th row
LastDelivered(k) ==
    delivered[Max({j \in 1 .. Len(delivered) :
                     conflict_key(delivered[j]) = conflict_key(delivered[k])})]

\* the records of a table
Records(table) == {table[k] : k \in 1 .. Len(table)}

\* C11: two runs into the same table leave at most one record per key
\* (owner_email, date, resource_id, name); a key delivered in the second run
\* holds the values of the second run (of its last row with that key); a
\* record whose key the second run did not deliver is left as the first run
\* wrote it.
C11_SecondRunReplaces ==
    /\ \A j, k \in 1 .. Len(db.table) :
          j # k => conflict_key(db.table[j]) # conflict_key(db.table[k])
    /\ db.run = 2 =>
          /\ \A k \in 1 .. Len(delivered) : LastDelivered(k) \in Records(db.table)
          /\ \A r \in Records(db.before) :
                conflict_key(r) \notin DeliveredKeys => r \in Records(db.table)

\* the second run has ended, it replaced the values of a record of the first
\* run and left another record of the first run alone
C11_Witness ==
    /\ db.run = 2
    /\ pc = "done"
    /\ \E r \in Records(db.before) :
          /\ conflict_key(r) \in DeliveredKeys
          /\ r \notin Records(db.table)
    /\ \E r \in Records(db.before) : conflict_key(r) \notin DeliveredKeys

\* C12: in every row handed to a sink, of every variant, owner_email is never
\* '(not set)', the empty string or null, and neither is application_env
\* where the row has one.
C12_TagsNeverUnset ==
    \A k \in 1 .. Len(delivered) :
        /\ delivered[k].owner_email \notin NotSet
        /\ "application_env" \in DOMAIN delivered[k] =>
              delivered[k].application_env \notin NotSet

\* C13: when the enqueue response carries no job identifier the run fails
\* with a protocol error: no status request and no results request is ever
\* issued without a job identifier.
C13_NoRequestWithoutJobId ==
    \A u \in call.urls : u.endpoint \in {"state", "results"} => u.job_id # None

\* rows of the result lists of the first n windows requested
RECURSIVE RowsUpTo(_)
RowsUpTo(n) == IF n = 0 THEN 0 ELSE RowsUpTo(n - 1) + Len(windows[n].rows)

\* the window whose result list holds the k-th row of the run
WindowOfRow(k) ==
    CHOOSE w \in 1 .. Len(windows) : RowsUpTo(w - 1) < k /\ k <= RowsUpTo(w)

\* the loop of the first vendor is over and the run has not failed
FirstVendorOver == pc # "failed" /\ (i >= 2 \/ pc = "done")

\* rows delivered with the vendor_id of the first vendor
FirstVendorRows ==
    SelectSeq(delivered, LAMBDA r : r.vendor_id = vendor_accounts[1].vendor_id)

\* C14: every row delivered carries the vendor_id and vendor_name of the
\* vendor whose window produced it.  For the vendor V1:Acme, with START_DATE
\* unset (7 days before today), window length 7 and the date of the run's
\* start: one enqueue call is made, for the window from today - 7 to today,
\* and when its job finished with a list of 2 rows, exactly 2 rows are
\* delivered for the vendor, both with vendor_id V1 and vendor_name Acme.
C14_EndToEnd ==
    /\ \A k \in 1 .. Len(delivered) :
          /\ k <= RowsUpTo(Len(windows))
          /\ delivered[k].vendor_id =
                vendor_accounts[windows[WindowOfRow(k)].vendor].vendor_id
          /\ delivered[k].vendor_name =
                vendor_accounts[windows[WindowOfRow(k)].vendor].vendor_name
    /\ (/\ variant = "daily"
        /\ env_start_date = None
        /\ report_length_days = 7
        /\ today = today0) =>
          /\ Cardinality(WindowsOf(1)) <= 1
          /\ \A k \in WindowsOf(1) :
                /\ windows[k].start_date = today0 - 7
                /\ windows[k].end_date = today0
                /\ windows[k].jobs <= 1
          /\ FirstVendorOver =>
                /\ Cardinality(WindowsOf(1)) = 1
                /\ Len(windows[1].rows) = 2 =>
                      /\ Len(FirstVendorRows) = 2
                      /\ \A k \in 1 .. 2 :
                            /\ delivered[k].vendor_id = "V1"
                            /\ delivered[k].vendor_name = "Acme"

\* the scenario: the one window of V1:Acme gave 2 rows, and the run is done
C14_Witness ==
    /\ variant = "daily"
    /\ env_start_date = None
    /\ report_length_days = 7
    /\ today = today0
    /\ pc = "done"
    /\ Len(windows[1].rows) = 2
    /\ Len(FirstVendorRows) = 2

Min(S) == CHOOSE x \in S : \A y \in S : x <= y

\* the first window requested for the vendor of index v
FirstWindow(v) == windows[Min(WindowsOf(v))]

\* the date ranges requested for the vendor of index v, in order
WindowSeq(v) ==
    LET S == SelectSeq(windows, LAMBDA w : w.vendor = v)
    IN  [k \in 1 .. Len(S) |-> <<S[k].start_date, S[k].end_date>>]

\* the configured start date: START_DATE, or 7 days before the date of some
\* moment of the run when it is unset
ConfiguredStarts ==
    IF env_start_date = None THEN {d - 7 : d \in today0 .. today}
    ELSE {env_start_date[1]}

\* C15 as stated: in every variant the first window of every vendor starts
\* at the configured start date, and all vendors of a run that ended are
\* requested with the same sequence of windows.
C15_FirstWindowAtConfiguredStart ==
    /\ \A v \in 1 .. Len(vendor_accounts) :
          WindowsOf(v) # {} => FirstWindow(v).start_date \in ConfiguredStarts
    /\ pc = "done" =>
          \A v, w \in 1 .. Len(vendor_accounts) : WindowSeq(v) = WindowSeq(w)

\* C15: in get-daily-spend.py and write-data-to-csv.py the first window of
\* every vendor starts at the configured start date; in cloudability-etl.py
\* it starts on the first day of the month of that date.  When the date
\* did not change during a run that ended, all its vendors were requested
\* with the same sequence of windows.
C15_FirstWindowStart ==
    /\ \A v \in 1 .. Len(vendor_accounts) :
          WindowsOf(v) # {} =>
            IF variant = "etl"
            THEN \E d \in ConfiguredStarts :
                   /\ FirstWindow(v).start_date \in MonthStarts
                   /\ FirstWindow(v).start_date <= d
                   /\ \A m \in MonthStarts : m <= d => m <= FirstWindow(v).start_date
            ELSE FirstWindow(v).start_date \in ConfiguredStarts
    /\ (pc = "done" /\ today = today0) =>
          \A v, w \in 1 .. Len(vendor_accounts) : WindowSeq(v) = WindowSeq(w)

\* cloudability-etl.py requested the second vendor from the first day of the
\* month, which is not the START_DATE set
C15_Witness ==
    /\ variant = "etl"
    /\ env_start_date # None
    /\ WindowsOf(2) # {}
    /\ FirstWindow(2).start_date # env_start_date[1]
    /\ FirstWindow(2).start_date = FirstWindow(1).start_date

\* the window loop was cut by the bound of the model
LoopCut == pc = "while" /\ start_date < today /\ Len(windows) >= MaxWindows

\* C16: with the default window length, a service that answers every request
\* with a status other than 502 after finitely many 502s, and jobs that all
\* report 'finished' or 'errored' after finitely many polls, every run comes
\* to an end (the end of get_data, or the HTTP error that ends the run).
C16_RunEnds == <>(pc \in {"done", "failed"} \/ LoopCut)

\* the row the variant makes of a raw row of window w
RowOf(w, raw) ==
    IF variant = "etl" THEN etl_row(vendor_accounts[w.vendor], raw)
    ELSE parse_result_row(vendor_accounts[w.vendor], raw)

\* the rows made of a list of raw rows of window w, in the list's order
RowsOf(w, list) == [k \in 1 .. Len(list) |-> RowOf(w, list[k])]

\* the rows of the result lists of the first n windows requested, in order
RECURSIVE Concatenation(_)
Concatenation(n) ==
    IF n = 0 THEN <<>>
    ELSE Concatenation(n - 1) \o RowsOf(windows[n], windows[n].rows)

\* the rows of the current result list that are still to be yielded
Pending ==
    IF results = <<>> THEN <<>> ELSE RowsOf(windows[Len(windows)], results)

\* C17: the rows delivered so far, followed by the rows of the current
\* result list still to be yielded, are the concatenation, in the order the
\* windows were requested (vendor by vendor, window by window) and in
\* result-list order, of the mapped result lists of the windows; whenever an
\* enqueue request is due or under way, nothing is pending: all rows of the
\* earlier windows have been delivered.  Rows are delivered only for a job
\* that reported 'finished'.
C17_StreamedInOrder ==
    /\ [](/\ delivered \o Pending = Concatenation(Len(windows))
          /\ pc \in {"while", "submit_job"} => Pending = <<>>)
    /\ [][delivered' # delivered /\ db'.run = db.run => job_status = "finished"]_vars

\* the run is done and delivered the rows of two windows
C17_Witness ==
    /\ pc = "done"
    /\ Len(windows) >= 2
    /\ windows[1].rows # <<>>
    /\ windows[2].rows # <<>>
    /\ \E k \in 1 .. Len(windows) : windows[k].jobs = 1 /\ windows[k].rows = <<>>
    /\ Len(delivered) = 4

\* a GET of the status URL is issued in this step
StatusRequest == pc = "poll" /\ call' # call

\* C18 as stated: every status request is issued right after a sleep, no two
\* status requests are issued back to back.
C18_SleepBeforeEveryStatusRequest == [][StatusRequest => call = Slept]_vars

\* C18: every poll of the job status (every call of get_url for the status
\* URL) is issued right after a sleep, the first one too; the only status
\* requests issued without a sleep before them are those get_url issues
\* again at once because the one before was answered 502.
C18_SleepBeforeEveryPoll ==
    [][StatusRequest =>
         \/ call = Slept
         \/ /\ variant = "daily"
            /\ call.outcome = "waiting"
            /\ call.last = 502
            /\ call.urls = {url}]_vars

\* the second poll of a job was answered 502 and issued again
C18_Witness ==
    /\ pc = "wait_for_job"
    /\ Len(polled) = 2
    /\ call.urls = {state_url(job_id)}
    /\ call.n502 = 1
    /\ call.attempts = 2

\* C19: whenever a run was ended by a termination signal (or a fatal error),
\* what the sink holds is a prefix of the rows of the run, each of them
\* written completely.
C19_SinkValidAfterSignal ==
    file # None =>
        /\ ~file[1].torn
        /\ \E n \in 0 .. Len(delivered) : file[1].rows = SubSeq(delivered, 1, n)

\* the filter of the current vendor and the dates of the current window
CurrentFilter ==
    IF variant = "etl" THEN etl_filter(vendor_accounts[i].vendor_id)
    ELSE vendor_filter(vendor_accounts[i].vendor_id)

CurrentEnd == start_date + (IF variant = "etl" THEN 7 ELSE report_length_days)

\* C20: every enqueue request, and the enqueue URL about to be requested,
\* carries the filter of the current vendor, the start date of the current
\* window and that start date plus the window length as end date: nothing
\* in it is left over from an earlier vendor or window.
C20_EnqueueCarriesCurrent ==
    \A u \in call.urls \cup (IF pc = "submit_job" THEN {url} ELSE {}) :
        u.endpoint = "enqueue" =>
            /\ u.filters = Some(CurrentFilter)
            /\ u.start_date = Some(start_date)
            /\ u.end_date = Some(CurrentEnd)
            /\ call.urls # {} =>
                  /\ u.start_date = Some(windows[Len(windows)].start_date)
                  /\ u.end_date = Some(windows[Len(windows)].end_date)
                  /\ windows[Len(windows)].vendor = i

\* the second window of the second vendor has been enqueued
C20_Witness ==
    /\ i = 2
    /\ Cardinality(WindowsOf(2)) = 2
    /\ call.outcome = "returned"
    /\ \E u \in call.urls : u.endpoint = "enqueue"
    /\ windows[Len(windows)].start_date # windows[1].start_date

\* C21: within one run into the database no two rows delivered by get_data
\* have the same key (owner_email, date, resource_id, name), so that the
\* table holds one record for every row delivered, each with its own values.
C21_NoKeyCollision ==
    (variant = "daily" /\ db.run = 1) =>
        /\ \A j, k \in 1 .. Len(delivered) :
              j # k => conflict_key(delivered[j]) # conflict_key(delivered[k])
        /\ Len(db.table) = Len(delivered)
        /\ \A k \in 1 .. Len(delivered) : delivered[k] \in Records(db.table)

====
